---- MODULE Spec2Model ----
(***************************************************************************)
(* FlashbaxReplayBuffer (og_marl/replay_buffers.py): a facade over a       *)
(* flashbax trajectory buffer (one row, ring along the time axis), a       *)
(* splittable generator key, and the snapshot ("vault") loader.            *)
(*                                                                         *)
(* A timestep is abstracted to one payload value; a slot of the store is a *)
(* record [v, n]: v the payload, n the ordinal of the add call that wrote  *)
(* it (0: never written, payload zero as jnp.empty_like leaves it).  n is  *)
(* bookkeeping for the properties, the code never reads it.                *)
(*                                                                         *)
(* The module keeps a second facade, twin, built with the same parameters  *)
(* and driven by the same calls, to state determinism.                     *)
(***************************************************************************)
EXTENDS Integers, Sequences, FiniteSets, TLC

VARIABLES
    params,        \* the constructor arguments
    facade,        \* the FlashbaxReplayBuffer object
    twin,          \* a second instance, same arguments, same calls
    ret,           \* outcome of the last call on facade
    twin_ret,      \* outcome of the last call on twin
    vault,         \* the dataset on disk: None or Some(snapshot)
    hist,          \* payloads passed to add on this facade, in call order
    sample_keys,   \* keys handed to the sampler by this facade, in call order
    retained_keys, \* every key the facade has held in _rng_key
    loaded         \* populate_from_vault has been called on this facade

vars == <<params, facade, twin, ret, twin_ret, vault, hist,
          sample_keys, retained_keys, loaded>>

----------------------------------------------------------------------------
\* Bounds of the model.

MaxSize == 3        \* largest max_size given to the constructor
MaxRingSize == 4    \* largest max_size in runs without a dataset
MaxAdds == 4        \* add calls per facade
MaxSamples == 2     \* sample calls per facade

SeqLens == {1, 2}           \* sequence_length arguments
Periods == {1, 2}           \* sample_period arguments
BatchSizes == {1}           \* batch_size arguments
Values == {1, 2}            \* timestep payloads

DefaultSeed == 42

None == <<>>
Some(x) == <<x>>

\* Python's floor division a // b for b > 0.
FloorDiv(a, b) == IF a >= 0 THEN a \div b ELSE -((b - 1 - a) \div b)

----------------------------------------------------------------------------
\* The generator: jax.random keys.  A key is the path of splits that led to
\* it from PRNGKey(seed); distinct paths are distinct keys.

PRNGKey(seed) == <<seed>>

\* jax.random.split(key, 2): two fresh keys.
Split(key) == <<Append(key, 0), Append(key, 1)>>

\* The raw draws a key can yield, one per batch entry.
RawBits == 0 .. (MaxRingSize - 1)

\* jax.random.randint(key, (), minval, maxval) from the raw draw: uniform on
\* [minval, maxval), and minval when the range is empty.
RandInt(raw, minval, maxval) ==
    IF maxval <= minval THEN minval ELSE minval + (raw % (maxval - minval))

----------------------------------------------------------------------------
\* The flashbax trajectory buffer the facade delegates to.

EmptySlot == [v |-> 0, n |-> 0]

\* fbx.make_trajectory_buffer validation: min_length_time_axis is raised to
\* sample_sequence_length, which must fit in max_length_time_axis.
MakeRaises(sequence_length, max_size) == sequence_length > max_size

MakeTrajectoryBuffer(batch_size, sequence_length, period, max_size) ==
    [ add_batch_size         |-> 1,
      sample_batch_size      |-> batch_size,
      sample_sequence_length |-> sequence_length,
      period                 |-> period,
      max_length_time_axis   |-> max_size ]

\* buffer.init(timestep): empty arrays of max_length_time_axis slots.
TBInit(buffer) ==
    [ experience    |-> [i \in 1 .. buffer.max_length_time_axis |-> EmptySlot],
      current_index |-> 0,
      is_full       |-> FALSE ]

\* The time-axis length is read off the state's arrays.
TimeAxis(state) == Len(state.experience)

\* buffer.add(state, timestep) with a time dimension of one.
TBAdd(state, slot) ==
    LET m == TimeAxis(state)
        i == state.current_index % m
    IN  [ experience    |-> [state.experience EXCEPT ![i + 1] = slot],
          current_index |-> (state.current_index + 1) % m,
          is_full       |-> state.is_full \/ (state.current_index + 1 >= m) ]

\* Number of start offsets the sampler draws from.
NumValidItems(buffer, state) ==
    LET max_time == IF state.is_full THEN TimeAxis(state) ELSE state.current_index
    IN  FloorDiv(max_time - buffer.sample_sequence_length, buffer.period) + 1

\* One sampled window: the start offset and the slots it covers.
TBWindow(buffer, state, raw) ==
    LET m     == TimeAxis(state)
        head  == IF state.is_full THEN state.current_index ELSE 0
        item  == RandInt(raw, 0, NumValidItems(buffer, state))
        start == (item * buffer.period + head) % m
        at    == [j \in 1 .. buffer.sample_sequence_length |-> (start + j - 1) % m]
    IN  [ start |-> start,
          slots |-> at,
          items |-> [j \in 1 .. buffer.sample_sequence_length |->
                        state.experience[at[j] + 1]] ]

\* buffer.sample(state, key): sample_batch_size windows.
TBSample(buffer, state, raws) ==
    [b \in 1 .. buffer.sample_batch_size |-> TBWindow(buffer, state, raws[b])]

----------------------------------------------------------------------------
\* Outcomes of a call: the operation, the exception that escaped it ("none"
\* when it returned), the boolean populate_from_vault returns, the batch
\* sample returns, for populate_from_vault what was wrong with the dataset,
\* and for add how the timestep's shape relates to the store's.

Returned(op) ==
    [op |-> op, raised |-> "none", ok |-> TRUE, batch |-> <<>>, fault |-> "none",
     shape |-> "same"]

Raised(op, exc) ==
    [op |-> op, raised |-> exc, ok |-> FALSE, batch |-> <<>>, fault |-> "none",
     shape |-> "same"]

----------------------------------------------------------------------------
\* FlashbaxReplayBuffer.

\* __init__ with sequence_length and sample_period exchanged in the call
\* that makes the buffer.
FacadeInitSwapped(instance, p) ==
    [ instance        |-> instance,
      sequence_length |-> p.sequence_length,
      max_size        |-> p.max_size,
      batch_size      |-> p.batch_size,
      replay_buffer   |-> MakeTrajectoryBuffer(p.batch_size, p.sample_period,
                                               p.sequence_length, p.max_size),
      buffer_state    |-> None,
      rng_key         |-> PRNGKey(p.seed) ]

\* __init__ seeding the generator from the object instead of the seed.
FacadeInitUnseeded(instance, p) ==
    [ instance        |-> instance,
      sequence_length |-> p.sequence_length,
      max_size        |-> p.max_size,
      batch_size      |-> p.batch_size,
      replay_buffer   |-> MakeTrajectoryBuffer(p.batch_size, p.sequence_length,
                                               p.sample_period, p.max_size),
      buffer_state    |-> None,
      rng_key         |-> PRNGKey(instance) ]

\* __init__
FacadeInit(instance, p) ==
    [ instance        |-> instance,
      sequence_length |-> p.sequence_length,
      max_size        |-> p.max_size,
      batch_size      |-> p.batch_size,
      replay_buffer   |-> MakeTrajectoryBuffer(p.batch_size, p.sequence_length,
                                               p.sample_period, p.max_size),
      buffer_state    |-> None,
      rng_key         |-> PRNGKey(p.seed) ]

\* add without the "is None" test: the store is initialised on every call.
FacadeAddReinit(f, v, n) ==
    [f EXCEPT !.buffer_state =
        Some(TBAdd(TBInit(f.replay_buffer), [v |-> v, n |-> n]))]

\* add that drops the state the buffer's add returns.
FacadeAddDiscard(f, v, n) ==
    IF f.buffer_state = None
    THEN [f EXCEPT !.buffer_state = Some(TBInit(f.replay_buffer))]
    ELSE f

\* add: lazy init, then the buffer's add; n is the ordinal of this call.
FacadeAdd(f, v, n) ==
    LET s0 == IF f.buffer_state = None
              THEN TBInit(f.replay_buffer)
              ELSE f.buffer_state[1]
    IN  [f EXCEPT !.buffer_state = Some(TBAdd(s0, [v |-> v, n |-> n]))]

\* How the per-field shape of a timestep can differ from the shape of the
\* store's arrays: it broadcasts to it (a dimension of one against a larger
\* one), or it does not.
ShapeKinds == {"broadcastable", "incompatible"}

\* add on a facade with a store, given a timestep of another shape.  The
\* facade checks nothing; the buffer's add checks the batch dimension and the
\* dtypes and then sets the slot, which broadcasts the timestep to the slot's
\* shape or raises when that cannot be done (the state is then not assigned).
FacadeAddMismatch(f, v, n, kind) ==
    IF kind = "incompatible" THEN f ELSE FacadeAdd(f, v, n)

\* add with a timestep of another shape: what the call gives back.
FacadeAddMismatchRet(kind) ==
    IF kind = "incompatible"
    THEN [Raised("add", "ValueError") EXCEPT !.shape = kind]
    ELSE [Returned("add") EXCEPT !.shape = kind]

\* The key sample() hands to the sampler.
SampleKey(f) == Split(f.rng_key)[2]

\* The key sample() keeps.
NextKey(f) == Split(f.rng_key)[1]

\* sample that splits the key and keeps the old one.
FacadeSampleStale(f) == f

\* sample: the facade after the call (the key advances before the sampler runs).
FacadeSample(f) == [f EXCEPT !.rng_key = NextKey(f)]

\* sample: what the call gives back, raws being the generator's draws for
\* SampleKey(f).  Without a store the sampler dereferences None.
FacadeSampleRet(f, raws) ==
    IF f.buffer_state = None
    THEN Raised("sample", "AttributeError")
    ELSE [Returned("sample") EXCEPT
            !.batch = TBSample(f.replay_buffer, f.buffer_state[1], raws)]

----------------------------------------------------------------------------
\* The snapshot on disk and its reader.

\* Exception classes a failing load can raise.
ExcClasses == {"ValueError", "KeyError"}

\* What can be wrong with the dataset a call names.
Faults == {"none", "missing", "version", "corrupt"}

\* The snapshot writer: the complete store state (arrays, cursor, is-full
\* flag); written records what the source store had been given.
VaultWrite(state, written) == [state |-> state, written |-> written]

\* Vault(...).read(): the stored state, or the exception raised.  A dataset
\* that does not exist raises ValueError; an incompatible or corrupt one
\* raises whichever class the failing layer uses.
VaultRead(v, fault, exc) ==
    IF v = None \/ fault = "missing"
    THEN [raised |-> "ValueError", state |-> None, fault |-> "missing"]
    ELSE IF fault \in {"version", "corrupt"}
         THEN [raised |-> exc, state |-> None, fault |-> fault]
         ELSE [raised |-> "none", state |-> Some(v[1].state), fault |-> "none"]

\* populate_from_vault rebuilding the buffer with the period it was
\* constructed with.
FacadePopulateKeepPeriod(f, rd) ==
    IF rd.raised # "none"
    THEN f
    ELSE LET read == rd.state[1]
             f1 == [f EXCEPT !.buffer_state = Some(read),
                             !.max_size = read.current_index]
         IN  IF MakeRaises(f1.sequence_length, f1.max_size)
             THEN f1
             ELSE [f1 EXCEPT !.replay_buffer =
                      MakeTrajectoryBuffer(f1.batch_size, f1.sequence_length,
                                           f.replay_buffer.period, f1.max_size)]

\* populate_from_vault rebuilding the buffer with the batch size and the
\* sequence length exchanged.
FacadePopulateSwapped(f, rd) ==
    IF rd.raised # "none"
    THEN f
    ELSE LET read == rd.state[1]
             f1 == [f EXCEPT !.buffer_state = Some(read),
                             !.max_size = read.current_index]
         IN  IF MakeRaises(f1.sequence_length, f1.max_size)
             THEN f1
             ELSE [f1 EXCEPT !.replay_buffer =
                      MakeTrajectoryBuffer(f1.sequence_length, f1.batch_size,
                                           1, f1.max_size)]

\* populate_from_vault rebuilding the buffer with the sequence length and
\* the new max_size exchanged.
FacadePopulateMixed(f, rd) ==
    IF rd.raised # "none"
    THEN f
    ELSE LET read == rd.state[1]
             f1 == [f EXCEPT !.buffer_state = Some(read),
                             !.max_size = read.current_index]
         IN  IF MakeRaises(f1.sequence_length, f1.max_size)
             THEN f1
             ELSE [f1 EXCEPT !.replay_buffer =
                      MakeTrajectoryBuffer(f1.batch_size, f1.max_size,
                                           1, f1.sequence_length)]

\* populate_from_vault taking a new key for the rebuilt buffer.
FacadePopulateRekey(f, rd) ==
    IF rd.raised # "none"
    THEN f
    ELSE LET read == rd.state[1]
             f1 == [f EXCEPT !.buffer_state = Some(read),
                             !.max_size = read.current_index]
         IN  IF MakeRaises(f1.sequence_length, f1.max_size)
             THEN f1
             ELSE [f1 EXCEPT !.replay_buffer =
                      MakeTrajectoryBuffer(f1.batch_size, f1.sequence_length,
                                           1, f1.max_size),
                             !.rng_key = Split(f.rng_key)[1]]

\* populate_from_vault: the facade after the call.
FacadePopulate(f, rd) ==
    IF rd.raised # "none"
    THEN f
    ELSE LET read == rd.state[1]
             f1 == [f EXCEPT !.buffer_state = Some(read),
                             !.max_size = read.current_index]
         IN  IF MakeRaises(f1.sequence_length, f1.max_size)
             THEN f1
             ELSE [f1 EXCEPT !.replay_buffer =
                      MakeTrajectoryBuffer(f1.batch_size, f1.sequence_length,
                                           1, f1.max_size)]

\* populate_from_vault: True, False (a ValueError was caught), or the
\* exception that escapes the handler.
FacadePopulateRet(f, rd) ==
    IF rd.raised = "none"
    THEN IF MakeRaises(f.sequence_length, rd.state[1].current_index)
         THEN [Returned("populate") EXCEPT !.ok = FALSE]
         ELSE Returned("populate")
    ELSE IF rd.raised = "ValueError"
         THEN [Returned("populate") EXCEPT !.ok = FALSE, !.fault = rd.fault]
         ELSE [Raised("populate", rd.raised) EXCEPT !.fault = rd.fault]

----------------------------------------------------------------------------
\* The program.

ParamSpace(largest) ==
    { p \in [ sequence_length : SeqLens, max_size : 1 .. largest,
              batch_size : BatchSizes, sample_period : Periods,
              seed : {DefaultSeed} ] :
        ~MakeRaises(p.sequence_length, p.max_size) }

\* The draws the generator yields for a key: a function of the key, so two
\* samplers given the same key get the same draws.
Draws == [1 .. params.batch_size -> RawBits]

InitWith(space) ==
    /\ params \in space
    /\ facade = FacadeInit(1, params)
    /\ twin = FacadeInit(2, params)
    /\ ret = Returned("init")
    /\ twin_ret = Returned("init")
    /\ vault = None
    /\ hist = <<>>
    /\ sample_keys = <<>>
    /\ retained_keys = {PRNGKey(params.seed)}
    /\ loaded = FALSE

Init == InitWith(ParamSpace(MaxSize))

InitRing == InitWith(ParamSpace(MaxRingSize))

\* A new facade is constructed with the same arguments, to use the dataset
\* on disk.
Construct ==
    /\ vault # None
    /\ facade' = FacadeInit(1, params)
    /\ twin' = FacadeInit(2, params)
    /\ ret' = Returned("init")
    /\ twin_ret' = Returned("init")
    /\ hist' = <<>>
    /\ sample_keys' = <<>>
    /\ retained_keys' = {PRNGKey(params.seed)}
    /\ loaded' = FALSE
    /\ UNCHANGED <<params, vault>>

AddCall ==
    /\ Len(hist) < MaxAdds
    /\ \E v \in Values :
        /\ facade' = FacadeAdd(facade, v, Len(hist) + 1)
        /\ twin' = FacadeAdd(twin, v, Len(hist) + 1)
        /\ hist' = Append(hist, v)
    /\ ret' = Returned("add")
    /\ twin_ret' = Returned("add")
    /\ UNCHANGED <<params, vault, sample_keys, retained_keys, loaded>>

\* add with a timestep whose shape is not the one the store was initialised
\* (or loaded) with.
AddMismatchCall ==
    /\ Len(hist) < MaxAdds
    /\ facade.buffer_state # None
    /\ \E v \in Values, kind \in ShapeKinds :
        /\ facade' = FacadeAddMismatch(facade, v, Len(hist) + 1, kind)
        /\ twin' = FacadeAddMismatch(twin, v, Len(hist) + 1, kind)
        /\ hist' = IF kind = "incompatible" THEN hist ELSE Append(hist, v)
        /\ ret' = FacadeAddMismatchRet(kind)
        /\ twin_ret' = FacadeAddMismatchRet(kind)
    /\ UNCHANGED <<params, vault, sample_keys, retained_keys, loaded>>

SampleCall ==
    /\ Len(sample_keys) < MaxSamples
    /\ \E r1 \in Draws :
        \E r2 \in IF SampleKey(twin) = SampleKey(facade) THEN {r1} ELSE Draws :
            /\ ret' = FacadeSampleRet(facade, r1)
            /\ twin_ret' = FacadeSampleRet(twin, r2)
    /\ facade' = FacadeSample(facade)
    /\ twin' = FacadeSample(twin)
    /\ sample_keys' = Append(sample_keys, SampleKey(facade))
    /\ retained_keys' = retained_keys \cup {facade'.rng_key}
    /\ UNCHANGED <<params, vault, hist, loaded>>

PopulateCall ==
    /\ \E fault \in Faults :
        \E exc \in IF fault \in {"version", "corrupt"} THEN ExcClasses ELSE {"ValueError"} :
            LET rd == VaultRead(vault, fault, exc)
            IN  /\ facade' = FacadePopulate(facade, rd)
                /\ twin' = FacadePopulate(twin, rd)
                /\ ret' = FacadePopulateRet(facade, rd)
                /\ twin_ret' = FacadePopulateRet(twin, rd)
    /\ loaded' = TRUE
    /\ UNCHANGED <<params, vault, hist, sample_keys, retained_keys>>

\* The store of the facade is snapshotted to disk.
WriteSnapshot ==
    /\ facade.buffer_state # None
    /\ ~loaded
    /\ vault' = Some(VaultWrite(facade.buffer_state[1], hist))
    /\ UNCHANGED <<params, facade, twin, ret, twin_ret, hist,
                   sample_keys, retained_keys, loaded>>

Next ==
    \/ Construct
    \/ AddCall
    \/ AddMismatchCall
    \/ SampleCall
    \/ PopulateCall
    \/ WriteSnapshot

Spec == Init /\ [][Next]_vars

\* The facade used without a dataset: add and sample calls only.
NextRing ==
    \/ AddCall
    \/ SampleCall

SpecRing == InitRing /\ [][NextRing]_vars

\* The facade used with a dataset: a facade is filled and written out, then
\* that facade or a fresh one loads the dataset and samples from it.
NextData ==
    \/ (vault = None /\ AddCall)
    \/ (vault = None /\ WriteSnapshot)
    \/ (~loaded /\ Construct)
    \/ PopulateCall
    \/ SampleCall

SpecData == InitRing /\ [][NextData]_vars

----------------------------------------------------------------------------
\* Properties.

Active(f) == f.buffer_state # None

Store(f) == f.buffer_state[1]

\* The live timesteps of a store, oldest first.
Live(state) ==
    LET m == TimeAxis(state)
    IN  IF state.is_full
        THEN [k \in 1 .. m |-> state.experience[((state.current_index + k - 1) % m) + 1]]
        ELSE SubSeq(state.experience, 1, state.current_index)

\* The k-th add call as a slot.
Written(k) == [v |-> hist[k], n |-> k]

\* C1. Ring invariant.  On a facade that has seen add calls only (no
\* snapshot load), the store never holds more than max_size live timesteps;
\* after N > max_size adds it holds exactly the last max_size of them, oldest
\* first in the order they were added, and no slot still holds one of the
\* first N - max_size.
RingInvariant ==
    (~loaded /\ Active(facade)) =>
        LET st == Store(facade)
            N  == Len(hist)
            c  == facade.max_size
        IN  /\ Len(Live(st)) <= c
            /\ N > c =>
                /\ Len(Live(st)) = c
                /\ \A k \in 1 .. c : Live(st)[k] = Written(N - c + k)
                /\ \A i \in 1 .. TimeAxis(st) : st.experience[i].n > N - c

\* C1 witness: more adds than max_size on a ring of at least two slots.
RingWrapped ==
    /\ ~loaded
    /\ ret.op = "add"
    /\ facade.max_size >= 2
    /\ Len(hist) > facade.max_size

\* C9. No drop, no reorder.  On a facade that has seen no snapshot load,
\* after N <= max_size adds the store holds exactly N timesteps, slot i
\* (0 <= i < N) holds what the (i+1)-th add was given and the other slots
\* are untouched; a window sampled then reproduces the added values at its
\* offsets.
NoDropOrder ==
    (~loaded /\ Active(facade) /\ Len(hist) <= facade.max_size) =>
        LET st == Store(facade)
            N  == Len(hist)
        IN  /\ Len(Live(st)) = N
            /\ \A i \in 0 .. TimeAxis(st) - 1 :
                st.experience[i + 1] = IF i < N THEN Written(i + 1) ELSE EmptySlot
            /\ (ret.op = "sample" /\ ret.raised = "none" /\ N >= facade.sequence_length) =>
                \A b \in DOMAIN ret.batch :
                    \A j \in DOMAIN ret.batch[b].items :
                        ret.batch[b].items[j] = Written(ret.batch[b].slots[j] + 1)

\* C9 witness: two or more adds, none overwritten, then a sample.
AddedInOrder ==
    /\ ~loaded
    /\ Len(hist) >= 2
    /\ Len(hist) <= facade.max_size
    /\ hist[1] # hist[2]
    /\ ret.op = "sample"
    /\ ret.raised = "none"

\* C2. Sampling validity.  On a facade that has seen add calls only, a
\* sample() made after K >= sequence_length adds returns batch_size windows
\* of sequence_length timesteps; every timestep in a window was written, the
\* timesteps of a window are consecutive in write order (across the wrap once
\* the store is full), and while K < max_size a window starting at offset i
\* has i + sequence_length <= K.
SamplingValid ==
    (~loaded /\ ret.op = "sample" /\ ret.raised = "none"
        /\ Len(hist) >= facade.sequence_length) =>
        /\ Len(ret.batch) = facade.batch_size
        /\ \A b \in DOMAIN ret.batch :
            LET w == ret.batch[b]
                L == facade.sequence_length
            IN  /\ Len(w.items) = L
                /\ \A j \in 1 .. L : w.items[j].n >= 1
                /\ \A j \in 1 .. L - 1 : w.items[j + 1].n = w.items[j].n + 1
                /\ Len(hist) < facade.max_size => w.start + L <= Len(hist)

\* C2 witness: a window of two timesteps drawn at a non-zero offset from a
\* store that is not yet full.
SampledPartial ==
    /\ ~loaded
    /\ ret.op = "sample"
    /\ ret.raised = "none"
    /\ facade.sequence_length = 2
    /\ Len(hist) < facade.max_size
    /\ ret.batch[1].start > 0

\* C2 witness, second case: a window drawn across the wrap of a full store.
SampledAcrossWrap ==
    /\ ~loaded
    /\ ret.op = "sample"
    /\ ret.raised = "none"
    /\ facade.sequence_length = 2
    /\ Len(hist) > facade.max_size
    /\ ret.batch[1].slots[2] < ret.batch[1].slots[1]

\* C3. Sampling an under-populated store is guarded: a sample() made while
\* the store holds fewer than sequence_length timesteps (none at all
\* included) ends in an error and returns no batch.
UnderPopulatedGuarded ==
    (~loaded /\ ret.op = "sample" /\ Len(hist) < facade.sequence_length) =>
        (ret.raised # "none" /\ ret.batch = <<>>)

NoKeyReuse ==
    /\ \A i, j \in DOMAIN sample_keys : i # j => sample_keys[i] # sample_keys[j]
    /\ \A i \in DOMAIN sample_keys : sample_keys[i] \notin retained_keys

\* C8 witness: the second sample() call.
SampledTwice ==
    /\ Len(sample_keys) >= 2
    /\ ret.op = "sample"

\* A populate_from_vault call that gave back the failure indicator.
LoadFailed(r) == r.op = "populate" /\ r.raised = "none" /\ ~r.ok

\* A populate_from_vault call that gave back the success indicator.
LoadSucceeded(r) == r.op = "populate" /\ r.raised = "none" /\ r.ok

\* C4. A failed populate_from_vault is atomic: a call that returns False
\* leaves the facade (store state, max_size, buffer and entry points, key)
\* exactly as it was before the call.
FailedLoadAtomic ==
    [][LoadFailed(ret') => facade' = facade]_vars

\* C5. Every snapshot load failure is reported as a value: no
\* populate_from_vault call ends with an exception escaping to the caller.
LoadFailureIsValue ==
    ret.op = "populate" => ret.raised = "none"

\* C6. Snapshot round trip.  A store given M timesteps, 1 <= M <= capacity,
\* is snapshotted; populate_from_vault of that intact snapshot into a fresh
\* facade succeeds, slot i of the loaded store holds the i-th written
\* timestep, and max_size is M.
RoundTrip ==
    (ret.op = "populate" /\ ret.fault = "none" /\ hist = <<>> /\ vault # None) =>
        LET written == vault[1].written
            M       == Len(written)
        IN  M <= TimeAxis(vault[1].state) =>
                /\ LoadSucceeded(ret)
                /\ facade.max_size = M
                /\ \A i \in 1 .. M :
                    Store(facade).experience[i] = [v |-> written[i], n |-> i]

\* One step of the facade lifecycle as claimed: ACTIVE after an add and
\* after a successful load, unchanged by sample and by a load that fails,
\* and never left by a call.
LifecycleStep ==
    /\ ret'.op = "add" => Active(facade')
    /\ LoadSucceeded(ret') => Active(facade')
    /\ (ret'.op = "sample" \/ (ret'.op = "populate" /\ ~LoadSucceeded(ret')))
            => (Active(facade') <=> Active(facade))
    /\ (ret'.op # "init" /\ Active(facade)) => Active(facade')

\* C10. Facade lifecycle: UNINITIALIZED at construction, ACTIVE exactly on
\* the first add or a successful populate_from_vault, unchanged by sample()
\* and by a failed populate_from_vault, and never back to UNINITIALIZED.
Lifecycle ==
    /\ ~Active(facade)
    /\ [][LifecycleStep]_vars

\* C11. Shape mismatch on add is fatal for that call only: an add on an
\* ACTIVE facade with a timestep whose shape differs from the store's raises,
\* writes nothing, and leaves the store contents and cursor unchanged.
ShapeMismatchFatal ==
    [][(ret'.op = "add" /\ ret'.shape # "same") =>
            (ret'.raised # "none" /\ facade'.buffer_state = facade.buffer_state)]_vars

\* The cursor of facade f lies in [0, max_size).
CursorInRange(f) ==
    /\ 0 <= Store(f).current_index
    /\ Store(f).current_index < f.max_size

\* One step as the cursor claim has it, loads that return False left aside:
\* the cursor is in range after a successful load and after the add that
\* creates the store, and an add (the step that lengthens hist) on a facade
\* whose cursor is in range moves it by one modulo max_size, keeps it in
\* range, never clears the is-full flag and sets it when the cursor wraps.
CursorStep ==
    /\ LoadSucceeded(ret') => CursorInRange(facade')
    /\ (Len(hist') = Len(hist) + 1 /\ ~Active(facade)) => CursorInRange(facade')
    /\ (Len(hist') = Len(hist) + 1 /\ Active(facade) /\ CursorInRange(facade)) =>
        /\ Store(facade').current_index =
                (Store(facade).current_index + 1) % facade.max_size
        /\ CursorInRange(facade')
        /\ Store(facade).is_full => Store(facade').is_full
        /\ Store(facade').current_index = 0 => Store(facade').is_full

\* C12. Cursor invariant: in every ACTIVE state, right after a successful
\* load included, 0 <= current_index < max_size; each add advances the cursor
\* by one modulo max_size; the is-full flag is set when the cursor first
\* wraps and add never clears it.
CursorInvariant ==
    [][CursorStep]_vars

\* The sequence length and the batch size in effect for sample() on facade f
\* are the ones p was constructed with.
WindowConfigKept(f, p) ==
    /\ f.sequence_length = p.sequence_length
    /\ f.batch_size = p.batch_size
    /\ f.replay_buffer.sample_sequence_length = p.sequence_length
    /\ f.replay_buffer.sample_batch_size = p.batch_size

\* A step of one facade object (every step but a construction).
SameFacade == ret'.op # "init"

\* One step as the configuration claim has it.
ConfigStep ==
    /\ WindowConfigKept(facade', params')
    /\ facade'.replay_buffer.period = params'.sample_period
    /\ (SameFacade /\ facade'.max_size # facade.max_size) => LoadSucceeded(ret')

ConfigStepLoaded ==
    /\ WindowConfigKept(facade', params')
    /\ ~loaded' => facade'.replay_buffer.period = params'.sample_period
    /\ (SameFacade /\ facade'.replay_buffer.period # facade.replay_buffer.period) =>
            LoadSucceeded(ret')
    /\ LoadSucceeded(ret') => facade'.replay_buffer.period = 1
    /\ (SameFacade /\ facade'.max_size # facade.max_size) =>
            /\ ret'.op = "populate" /\ ret'.raised = "none" /\ ret'.fault = "none"
            /\ facade'.max_size = Store(facade').current_index

SnapshotBacked(f) ==
    /\ loaded
    /\ Active(f)
    /\ f.max_size = Store(f).current_index
    /\ ~MakeRaises(f.sequence_length, f.max_size)
    /\ vault # None
    /\ Store(f) = vault[1].state

\* The window of facade f's sequence length that starts at the k-th oldest
\* loaded timestep.
LoadedWindow(f, k) ==
    SubSeq(Live(Store(f)), k, k + f.sequence_length - 1)

\* The start offsets whose window lies within the loaded data.
LoadedOffsets(f) ==
    1 .. (Len(Live(Store(f))) - f.sequence_length + 1)

\* C14. Snapshot-backed sampling uses period 1: after a successful
\* populate_from_vault, whatever sample_period the facade was constructed
\* with, every start offset whose window of sequence_length timesteps lies
\* within the loaded data is one that sample() can draw.
SnapshotPeriodOne ==
    SnapshotBacked(facade) =>
        \A k \in LoadedOffsets(facade) :
            \E raw \in RawBits :
                TBWindow(facade.replay_buffer, Store(facade), raw).items =
                    LoadedWindow(facade, k)

\* A facade constructed with sample_period 2 right after it loaded a dataset
\* that holds more than one window.
LoadedWithStride ==
    /\ LoadSucceeded(ret)
    /\ SnapshotBacked(facade)
    /\ params.sample_period = 2
    /\ Cardinality(LoadedOffsets(facade)) >= 2

\* The k-th timestep written to the dataset, as a slot.
WrittenToVault(k) == [v |-> vault[1].written[k], n |-> k]

\* C15. Post-load sampling validity: after a successful load of a dataset
\* that holds at least sequence_length written timesteps, every window a
\* sample() returns (no add in between) has sequence_length timesteps, each
\* one a timestep written to the dataset, consecutive in the order they were
\* written; no window takes a slot outside the loaded data or joins the end
\* of the data to its beginning.
PostLoadSamplingValid ==
    (SnapshotBacked(facade) /\ ret.op = "sample" /\ ret.raised = "none") =>
        /\ Len(ret.batch) = facade.batch_size
        /\ \A b \in DOMAIN ret.batch :
            LET w == ret.batch[b]
                L == facade.sequence_length
            IN  /\ Len(w.items) = L
                /\ \A j \in 1 .. L :
                    /\ w.items[j].n \in 1 .. Len(vault[1].written)
                    /\ w.items[j] = WrittenToVault(w.items[j].n)
                /\ \A j \in 1 .. L - 1 : w.items[j + 1].n = w.items[j].n + 1

\* A freshly constructed facade that loaded a dataset and drew a window of two
\* timesteps at a non-zero offset.
SampledFromDataset ==
    /\ SnapshotBacked(facade)
    /\ hist = <<>>
    /\ ret.op = "sample"
    /\ ret.raised = "none"
    /\ facade.sequence_length = 2
    /\ ret.batch[1].start > 0

\* The step is an add call that wrote a timestep.
AddStep == Len(hist') = Len(hist) + 1

\* The step is a sample call.
SampleStep == Len(sample_keys') = Len(sample_keys) + 1

\* One step as the store frame has it.
StoreStep ==
    /\ (SameFacade /\ facade'.buffer_state # facade.buffer_state) =>
            (AddStep \/ LoadSucceeded(ret'))
    /\ SampleStep => facade'.buffer_state = facade.buffer_state
    /\ (AddStep /\ Active(facade)) =>
        /\ TimeAxis(Store(facade')) = TimeAxis(Store(facade))
        /\ \A i \in 1 .. TimeAxis(Store(facade)) :
            i # Store(facade).current_index + 1 =>
                Store(facade').experience[i] = Store(facade).experience[i]

\* C16. Store mutation frame: the store state changes only in add and in a
\* populate_from_vault that returns success; sample() leaves it unchanged;
\* an add on an ACTIVE facade (also one made ACTIVE by a load) never
\* re-initialises the store and touches no slot but the one at the cursor.
StoreFrame ==
    [][StoreStep]_vars

\* The key a facade seeded with seed retains after k sample() calls.
RECURSIVE RetainedAfter(_, _)
RetainedAfter(seed, k) ==
    IF k = 0 THEN PRNGKey(seed) ELSE Split(RetainedAfter(seed, k - 1))[1]

\* The key the k-th sample() of a facade seeded with seed uses.
KthSampleKey(seed, k) == Split(RetainedAfter(seed, k - 1))[2]

\* One step as the key frame has it.
KeyStep ==
    /\ (SameFacade /\ facade'.rng_key # facade.rng_key) => SampleStep
    /\ \A k \in DOMAIN sample_keys' :
            sample_keys'[k] = KthSampleKey(params'.seed, k)
    /\ facade'.rng_key = RetainedAfter(params'.seed, Len(sample_keys'))

\* C17. Generator-key frame: the retained key is changed only by sample();
\* add and populate_from_vault, whether it succeeds or fails, leave it
\* unchanged, so the key the k-th sample() uses depends only on the seed and
\* on k, however adds and loads are interleaved with the samples.
KeyFrame ==
    [][KeyStep]_vars

\* A facade that added, loaded a dataset and has sampled twice.
SampledTwiceAfterLoad ==
    /\ SnapshotBacked(facade)
    /\ Len(hist) >= 1
    /\ Len(sample_keys) = 2
    /\ ret.op = "sample"
    /\ ret.raised = "none"

====
